---- MODULE Spec2Model ----
(***************************************************************************)
(* go-inkscape: the Proxy (proxy.go) that keeps an "inkscape --shell"      *)
(* process running and serialises the callers' commands on it.             *)
(*                                                                         *)
(* Byte slices are sequences of one-character strings.  Every goroutine    *)
(* is a process with a program counter: the callers of sendCommand (Run's  *)
(* version call, the users' calls, Close's quit call), the transport       *)
(* (runBackground under runner.RunWithRetry) and the subordinate process   *)
(* with the two pipes its output is copied from.                           *)
(***************************************************************************)
EXTENDS Naturals, Sequences, FiniteSets, TLC

\* ------------------------------------------------------------------ bounds

\* user goroutines, each making one SendCommand call
NumUsers == 2
\* capacity of p.stdout, p.stderr and p.requestQueue: NewProxy makes them
\* with 100 places; the model keeps the blocking behaviour with fewer
ChanCap == 2
\* chunks the subordinate writes on its own while no command is in flight
MaxStray == 1
\* options.maxRetry: the attempts the supervisor makes
MaxRetry == 2

\* ------------------------------------------------------------- processes

NoCmd == 0
RunCaller == 1
Users == 2..(NumUsers + 1)
Closer == NumUsers + 2
Callers == {RunCaller} \cup Users \cup {Closer}

\* ------------------------------------------------------------------ bytes

NL == "\n"
SP == " "
GT == ">"

IsSpace(ch) == ch \in {NL, SP}

RECURSIVE TrimLeft(_)
TrimLeft(s) == IF s # <<>> /\ IsSpace(Head(s)) THEN TrimLeft(Tail(s)) ELSE s

RECURSIVE TrimRight(_)
TrimRight(s) ==
    IF s # <<>> /\ IsSpace(s[Len(s)])
    THEN TrimRight(SubSeq(s, 1, Len(s) - 1))
    ELSE s

\* bytes.TrimSpace
TrimSpace(s) == TrimRight(TrimLeft(s))

\* bytes.Split(s, "\n")
RECURSIVE Split(_)
Split(s) ==
    IF \E i \in 1..Len(s) : s[i] = NL
    THEN LET i == CHOOSE k \in 1..Len(s) :
                      s[k] = NL /\ \A j \in 1..(k - 1) : s[j] # NL
         IN  <<SubSeq(s, 1, i - 1)>> \o Split(SubSeq(s, i + 1, Len(s)))
    ELSE <<s>>

\* bytes.Contains
Contains(s, sub) ==
    \E i \in 0..Len(s) :
        /\ i + Len(sub) <= Len(s)
        /\ \A j \in 1..Len(sub) : s[i + j] = sub[j]

\* bytes.HasSuffix(b, "\n")
HasSuffixNL(b) == b # <<>> /\ b[Len(b)] = NL

isPromptContains(data) == Contains(data, <<GT>>)

isPrompt(data) == data = <<GT>>

\* the loop over bytes.Split(chunk, "\n") that looks for the prompt
HasPromptPart(chunk) ==
    LET parts == Split(chunk)
    IN  \E k \in 1..Len(parts) : isPrompt(parts[k])

quitCommand == <<"q", "u", "i", "t">>
versionCommand == <<"v">>
userCommand == <<"c">>
WARNING == <<"W", "A", "R", "N", "I", "N", "G">>
shellModeBanner == <<"I", "n", "k">>

\* every byte that is not white space, in order
StripSpace(s) == SelectSeq(s, LAMBDA ch : ~IsSpace(ch))

\* -------------------------------------------------- the subordinate's side

\* one write of the subordinate: stream, bytes, and the result content the
\* bytes carry (nothing for a prompt or a diagnostic)
Out(d, r) == [s |-> "out", d |-> d, res |-> r]
Diag(d) == [s |-> "err", d |-> d, res |-> <<>>]

\* what the shell prints at launch: the banner, then the first prompt
Startups ==
    [ apart  |-> << Out(shellModeBanner \o <<NL>>, <<>>), Out(<<GT, SP>>, <<>>) >>,
      joined |-> << Out(shellModeBanner \o <<NL, GT, SP>>, <<>>) >>,
      noisy  |-> << Out(<<"a", GT, "b", NL>>, <<>>), Out(<<SP, GT, "b", NL, GT, SP>>, <<>>) >> ]

\* what the shell prints for one command, the prompt last
Responses ==
    [ prompt |-> << Out(<<GT, SP>>, <<>>) >>,
      apart  |-> << Out(<<"a", NL>>, <<"a">>), Out(<<GT, SP>>, <<>>) >>,
      joined |-> << Out(<<"a", NL, GT, SP>>, <<"a">>) >>,
      gt     |-> << Out(<<"a", GT, "b", NL>>, <<"a", GT, "b">>),
                    Out(<<GT, "b", NL, GT, SP>>, <<GT, "b">>) >>,
      diag   |-> << Diag(<<"E", NL>>), Out(<<GT, SP>>, <<>>) >>,
      warn   |-> << Diag(WARNING \o <<NL>>), Out(<<GT, SP>>, <<>>) >>,
      mixed  |-> << Diag(WARNING \o <<NL, "E", NL>>), Out(<<GT, SP>>, <<>>) >>,
      banner |-> << Out(shellModeBanner \o <<NL>>, <<>>), Out(<<GT, SP>>, <<>>) >> ]

StrayWrites == { Out(<<"x", NL>>, <<>>), Diag(<<"E", NL>>) }

\* ------------------------------------------------------------------ state

VARIABLES
    env,             \* what the surroundings may do in this run
    options,         \* Proxy.options
    requestLimiter,  \* tokens in the limiter channel (capacity 1)
    requestQueue,    \* Proxy.requestQueue
    stdout,          \* Proxy.stdout
    stderr,          \* Proxy.stderr
    ctxDone,         \* Proxy.ctx is cancelled
    closed,          \* the channels Close has closed
    tpc,             \* where the transport goroutine is
    attempt,         \* invocations of runBackground so far
    tbuf,            \* the event the transport is blocked sending
    proc,            \* the subordinate process: none, up, dead
    stdin,           \* commands written to it and not yet answered
    outPipe,         \* chunks on their way to stdoutC
    errPipe,         \* chunks on their way to stderrC
    strays,          \* stray chunks written so far
    pc,              \* where each caller is
    callCtx,         \* each call's context: bg, live, done, expired (done when called)
    output,          \* sendCommand's output
    err,             \* sendCommand's err
    ret,             \* what the call returned
    panicked,        \* a goroutine panicked: the program is gone
    mints,           \* tokens the transport has put into the limiter
    afterCancel,     \* calls made after some call had returned canceled
    src,             \* the commands whose stdout chunks each call consumed
    errSrc,          \* the command whose stderr chunk each call returned
    answered,        \* result content the subordinate wrote for each call in progress
    waitLog,         \* chunks the startup wait skipped, and the one that ended it
    callLog,         \* the same for each call's wait loop
    diagnosed,       \* stderr chunks the subordinate wrote for each call in progress
    afterClose,      \* calls made after Close had returned
    quiet,           \* Close began with every command completed, and no call since
    mem,             \* the backing array of each pooled buffer, as far as written
    free,            \* the buffers in the pool
    bufOf            \* the buffer each call has checked out (0: none)

chanVars == <<requestLimiter, requestQueue, stdout, stderr>>
sessVars == <<ctxDone, closed>>
transVars == <<tpc, attempt, tbuf>>
procVars == <<proc, stdin, outPipe, errPipe, strays>>
callVars == <<pc, callCtx, output, err, ret>>
ghostVars == <<mints, afterCancel, src, errSrc, answered, waitLog, callLog,
               diagnosed, afterClose, quiet>>
fixedVars == <<env, options>>
poolVars == <<mem, free, bufOf>>

vars == <<fixedVars, poolVars, chanVars, sessVars, transVars, procVars, callVars, panicked, ghostVars>>

NoLog == [skipped |-> {}, end |-> {}]

\* the buffers the pool can come to hold: one for each call made at a time
Buffers == 1..NumUsers

\* NewProxy
InitProxy ==
    /\ requestLimiter = 0
    /\ requestQueue = <<>>
    /\ stdout = <<>>
    /\ stderr = <<>>
    /\ ctxDone = FALSE
    /\ closed = {}
    /\ tpc = "off"
    /\ attempt = 0
    /\ tbuf = <<>>
    /\ proc = "none"
    /\ stdin = <<>>
    /\ outPipe = <<>>
    /\ errPipe = <<>>
    /\ strays = 0
    /\ pc = [c \in Callers |-> "idle"]
    /\ callCtx = [c \in Callers |-> "bg"]
    /\ output = [c \in Callers |-> <<>>]
    /\ err = [c \in Callers |-> <<>>]
    /\ ret = [c \in Callers |-> "none"]
    /\ panicked = FALSE
    /\ mints = 0
    /\ afterCancel = {}
    /\ src = [c \in Callers |-> {}]
    /\ errSrc = [c \in Callers |-> {}]
    /\ answered = [c \in Callers |-> <<>>]
    /\ waitLog = NoLog
    /\ callLog = [c \in Callers |-> NoLog]
    /\ diagnosed = [c \in Callers |-> {}]
    /\ afterClose = {}
    /\ quiet = FALSE
    /\ mem = [b \in Buffers |-> <<>>]
    /\ free = {}
    /\ bufOf = [c \in Callers |-> 0]

\* ------------------------------------------------- commands and buffers

Digits == <<"0", "1", "2", "3", "4", "5", "6", "7", "8", "9">>

\* the bytes each caller sends: Run its version command, Close the quit
\* command, each user a command of its own
Command(c) ==
    IF c = RunCaller THEN versionCommand
    ELSE IF c = Closer THEN quitCommand
    ELSE userCommand \o <<Digits[c + 1]>>

\* bytes written at the start of an array that holds old bytes
Overlay(old, new) == new \o SubSeq(old, Len(new) + 1, Len(old))

\* the buffers that calls have checked out
InUse == {bufOf[c] : c \in Callers} \ {0}

\* bufferPool.Get(): a buffer of the pool, or a new one when the pool is empty
GetChoices ==
    IF free # {} THEN free
    ELSE {CHOOSE b \in Buffers \ InUse : \A a \in Buffers \ InUse : b <= a}

\* RawCommandsContext up to sendCommand: the call c checks out buffer b and
\* writes its command into it
CheckOut(c, b) ==
    /\ bufOf' = [bufOf EXCEPT ![c] = b]
    /\ free' = free \ {b}
    /\ mem' = [mem EXCEPT ![b] = Overlay(@, Command(c))]

\* the deferred bufferPool.Put(buffer) of RawCommandsContext; Close has no buffer
PutBack(c) ==
    /\ bufOf' = [bufOf EXCEPT ![c] = 0]
    /\ free' = IF bufOf[c] = 0 THEN free ELSE free \cup {bufOf[c]}
    /\ UNCHANGED mem

\* the bytes of the slice b that sendCommand got: the call's buffer.Bytes(),
\* or Close's own []byte(quitCommand)
SliceOf(c) ==
    IF bufOf[c] = 0 THEN Command(c)
    ELSE SubSeq(mem[bufOf[c]], 1, Len(Command(c)))

\* a queued command: a slice (its bytes when it was sent, the array behind
\* it) and the call that sent it
Request(d, c, b) == [d |-> d, cmd |-> c, buf |-> b]

\* the bytes that stdin.Write(command) finds in the slice
Written(m) ==
    IF m.buf = 0 THEN m.d ELSE SubSeq(mem[m.buf], 1, Len(m.d))

\* ------------------------------------------------------------ the transport

\* make(chan struct{}, 1)
LimiterCap == 1

Event(d, c) == [d |-> d, cmd |-> c]

writeError == <<"E", "P", "I", "P", "E">>

\* p.stderr <- x in runBackground: blocks while the channel is full, panics
\* on a closed channel
SendStderr(x) ==
    IF "stderr" \in closed
    THEN /\ panicked' = TRUE
         /\ UNCHANGED <<stderr, tpc, tbuf>>
    ELSE IF Len(stderr) < ChanCap
    THEN /\ stderr' = Append(stderr, x)
         /\ tpc' = "serve"
         /\ tbuf' = <<>>
         /\ UNCHANGED panicked
    ELSE /\ tpc' = "sendErr"
         /\ tbuf' = <<x>>
         /\ UNCHANGED <<stderr, panicked>>

\* p.stdout <- x in runBackground
SendStdout(x) ==
    IF "stdout" \in closed
    THEN /\ panicked' = TRUE
         /\ UNCHANGED <<stdout, tpc, tbuf>>
    ELSE IF Len(stdout) < ChanCap
    THEN /\ stdout' = Append(stdout, x)
         /\ tpc' = "serve"
         /\ tbuf' = <<>>
         /\ UNCHANGED panicked
    ELSE /\ tpc' = "sendOut"
         /\ tbuf' = <<x>>
         /\ UNCHANGED <<stdout, panicked>>

\* runBackground up to cmd.Start(): a new process with new pipes, or an error
Start ==
    /\ ~panicked
    /\ tpc = "start"
    /\ attempt' = attempt + 1
    /\ \E ok \in (IF env.startFail THEN BOOLEAN ELSE {TRUE}) :
          IF ok /\ ~ctxDone
          THEN /\ \E n \in env.startups :
                     stdin' = << [cmd |-> NoCmd, d |-> <<>>, rest |-> Startups[n],
                                  quit |-> FALSE] >>
               /\ proc' = "up"
               /\ outPipe' = <<>>
               /\ errPipe' = <<>>
               /\ waitLog' = NoLog
               /\ tpc' = "wait"
          ELSE /\ tpc' = "backoff"
               /\ UNCHANGED <<proc, stdin, outPipe, errPipe, waitLog>>
    /\ UNCHANGED <<fixedVars, poolVars, chanVars, sessVars, tbuf, strays, callVars, panicked,
                   mints, afterCancel, diagnosed, afterClose, quiet, src, errSrc,
                   answered, callLog>>

\* runner.RunWithRetry after runBackground returned an error
Retry ==
    /\ ~panicked
    /\ tpc = "backoff"
    /\ tpc' = IF attempt < options.maxRetry /\ ~ctxDone THEN "start" ELSE "stopped"
    /\ UNCHANGED <<fixedVars, poolVars, chanVars, sessVars, attempt, tbuf, procVars, callVars,
                   panicked, ghostVars>>

WaitAnyChunk ==
    /\ ~panicked
    /\ tpc = "wait"
    /\ outPipe # <<>>
    /\ LET chunk == Head(outPipe)
           bytesOut == TrimSpace(chunk.d)
       IN  /\ outPipe' = Tail(outPipe)
           /\ tpc' = "mint"
           /\ IF HasPromptPart(bytesOut)
              THEN waitLog' = [waitLog EXCEPT !.end = {chunk.d}]
              ELSE waitLog' = [waitLog EXCEPT !.skipped = @ \cup {chunk.d}]
    /\ UNCHANGED <<fixedVars, poolVars, chanVars, sessVars, attempt, tbuf, proc, stdin, errPipe,
                   strays, callVars, panicked, mints, afterCancel, diagnosed, afterClose,
                   quiet, src, errSrc, answered, callLog>>

\* the wait loop of runBackground: one chunk of stdoutC
WaitPrompt ==
    /\ ~panicked
    /\ tpc = "wait"
    /\ outPipe # <<>>
    /\ LET chunk == Head(outPipe)
           bytesOut == TrimSpace(chunk.d)
       IN  /\ outPipe' = Tail(outPipe)
           /\ IF HasPromptPart(bytesOut)
              THEN /\ tpc' = "mint"
                   /\ waitLog' = [waitLog EXCEPT !.end = {chunk.d}]
              ELSE /\ tpc' = "wait"
                   /\ waitLog' = [waitLog EXCEPT !.skipped = @ \cup {chunk.d}]
    /\ UNCHANGED <<fixedVars, poolVars, chanVars, sessVars, attempt, tbuf, proc, stdin, errPipe,
                   strays, callVars, panicked, mints, afterCancel, diagnosed, afterClose,
                   quiet, src, errSrc,
                   answered, callLog>>

\* select { case p.requestLimiter <- struct{}{}: default: }
Mint ==
    /\ ~panicked
    /\ tpc = "mint"
    /\ IF "limiter" \in closed
       THEN /\ panicked' = TRUE
            /\ UNCHANGED <<requestLimiter, tpc, mints>>
       ELSE /\ requestLimiter' =
                  IF requestLimiter < LimiterCap THEN requestLimiter + 1 ELSE requestLimiter
            /\ mints' = IF requestLimiter < LimiterCap THEN mints + 1 ELSE mints
            /\ tpc' = "serve"
            /\ UNCHANGED panicked
    /\ UNCHANGED <<fixedVars, poolVars, requestQueue, stdout, stderr, sessVars, attempt, tbuf,
                   procVars, callVars, afterCancel, diagnosed, afterClose, quiet, src, errSrc,
                   answered, waitLog,
                   callLog>>

\* case <-ctx.Done(): return cmd.Wait()
ServeDone ==
    /\ ~panicked
    /\ tpc = "serve"
    /\ ctxDone
    /\ tpc' = "cmdWait"
    /\ UNCHANGED <<fixedVars, poolVars, chanVars, sessVars, attempt, tbuf, procVars, callVars,
                   panicked, ghostVars>>

\* cmd.Wait() returns when the process has exited and both copying goroutines
\* have handed over their last chunk; the supervisor then stops
CmdWait ==
    /\ ~panicked
    /\ tpc = "cmdWait"
    /\ proc = "dead"
    /\ outPipe = <<>>
    /\ errPipe = <<>>
    /\ tpc' = "stopped"
    /\ UNCHANGED <<fixedVars, poolVars, chanVars, sessVars, attempt, tbuf, procVars, callVars,
                   panicked, ghostVars>>

\* case command := <-p.requestQueue: stdin.Write(command)
Dequeue ==
    /\ ~panicked
    /\ tpc = "serve"
    /\ requestQueue # <<>>
    /\ LET m == Head(requestQueue)
       IN  /\ requestQueue' = Tail(requestQueue)
           /\ IF proc = "up"
              THEN /\ IF Written(m) = quitCommand \o <<NL>>
                      THEN stdin' = Append(stdin,
                              [cmd |-> m.cmd, d |-> Written(m), rest |-> <<>>, quit |-> TRUE])
                      ELSE \E r \in env.responses :
                              stdin' = Append(stdin,
                                  [cmd |-> m.cmd, d |-> Written(m), rest |-> Responses[r],
                                   quit |-> FALSE])
                   /\ UNCHANGED <<stderr, tpc, tbuf, panicked>>
              ELSE /\ SendStderr(Event(writeError, m.cmd))
                   /\ UNCHANGED stdin
    /\ UNCHANGED <<fixedVars, poolVars, requestLimiter, stdout, sessVars, attempt, proc, outPipe,
                   errPipe, strays, callVars, ghostVars>>

\* case bytesErr := <-stderrC
ServeStderr ==
    /\ ~panicked
    /\ tpc = "serve"
    /\ errPipe # <<>>
    /\ LET chunk == Head(errPipe)
       IN  /\ errPipe' = Tail(errPipe)
           /\ IF Len(chunk.d) = 0
              THEN UNCHANGED <<stderr, tpc, tbuf, panicked>>
              ELSE IF options.suppressWarning /\ Contains(chunk.d, WARNING)
              THEN UNCHANGED <<stderr, tpc, tbuf, panicked>>
              ELSE SendStderr(Event(TrimSpace(chunk.d), chunk.cmd))
    /\ UNCHANGED <<fixedVars, poolVars, requestLimiter, requestQueue, stdout, sessVars, attempt,
                   proc, stdin, outPipe, strays, callVars, ghostVars>>

\* case bytesOut := <-stdoutC
ServeStdout ==
    /\ ~panicked
    /\ tpc = "serve"
    /\ outPipe # <<>>
    /\ LET chunk == Head(outPipe)
       IN  /\ outPipe' = Tail(outPipe)
           /\ IF Len(chunk.d) = 0
              THEN UNCHANGED <<stdout, tpc, tbuf, panicked>>
              ELSE SendStdout(Event(TrimSpace(chunk.d), chunk.cmd))
    /\ UNCHANGED <<fixedVars, poolVars, requestLimiter, requestQueue, stderr, sessVars, attempt,
                   proc, stdin, errPipe, strays, callVars, ghostVars>>

\* the transport blocked in p.stderr <- x or p.stdout <- x gets its turn
Unblock ==
    /\ ~panicked
    /\ tpc \in {"sendErr", "sendOut"}
    /\ IF tpc = "sendErr"
       THEN /\ "stderr" \in closed \/ Len(stderr) < ChanCap
            /\ SendStderr(tbuf[1])
            /\ UNCHANGED stdout
       ELSE /\ "stdout" \in closed \/ Len(stdout) < ChanCap
            /\ SendStdout(tbuf[1])
            /\ UNCHANGED stderr
    /\ UNCHANGED <<fixedVars, poolVars, requestLimiter, requestQueue, sessVars, attempt, procVars,
                   callVars, ghostVars>>

\* ----------------------------------------------------------- the subordinate

\* the shell writes the next chunk of what it answers to the command it is at
Emit ==
    /\ ~panicked
    /\ proc = "up"
    /\ stdin # <<>>
    /\ ~Head(stdin).quit
    /\ LET h == Head(stdin)
           e == Head(h.rest)
       IN  /\ IF e.s = "out"
              THEN /\ outPipe' = Append(outPipe, Event(e.d, h.cmd))
                   /\ UNCHANGED errPipe
              ELSE /\ errPipe' = Append(errPipe, Event(e.d, h.cmd))
                   /\ UNCHANGED outPipe
           /\ answered' = IF h.cmd = NoCmd \/ pc[h.cmd] = "done" THEN answered
                          ELSE [answered EXCEPT ![h.cmd] = @ \o e.res]
           /\ diagnosed' = IF h.cmd = NoCmd \/ pc[h.cmd] = "done" \/ e.s = "out"
                           THEN diagnosed
                           ELSE [diagnosed EXCEPT ![h.cmd] = @ \cup {e.d}]
           /\ stdin' = IF Len(h.rest) = 1 THEN Tail(stdin)
                       ELSE [stdin EXCEPT ![1].rest = Tail(h.rest)]
    /\ UNCHANGED <<fixedVars, poolVars, chanVars, sessVars, transVars, proc, strays, callVars,
                   panicked, mints, afterCancel, afterClose, quiet, src, errSrc, waitLog, callLog>>

\* the shell reads "quit" and exits
Quit ==
    /\ ~panicked
    /\ proc = "up"
    /\ stdin # <<>>
    /\ Head(stdin).quit
    /\ proc' = "dead"
    /\ stdin' = <<>>
    /\ UNCHANGED <<fixedVars, poolVars, chanVars, sessVars, transVars, outPipe, errPipe, strays,
                   callVars, panicked, ghostVars>>

\* exec.CommandContext kills the process once the context is done
Kill ==
    /\ ~panicked
    /\ proc = "up"
    /\ ctxDone
    /\ proc' = "dead"
    /\ stdin' = <<>>
    /\ UNCHANGED <<fixedVars, poolVars, chanVars, sessVars, transVars, outPipe, errPipe, strays,
                   callVars, panicked, ghostVars>>

\* the process terminates on its own, whatever it was doing
Crash ==
    /\ ~panicked
    /\ proc = "up"
    /\ env.crash
    /\ ~ctxDone
    /\ proc' = "dead"
    /\ stdin' = <<>>
    /\ UNCHANGED <<fixedVars, poolVars, chanVars, sessVars, transVars, outPipe, errPipe, strays,
                   callVars, panicked, ghostVars>>

\* the shell writes something while it has no command to answer
Stray ==
    /\ ~panicked
    /\ proc = "up"
    /\ stdin = <<>>
    /\ env.stray
    /\ strays < MaxStray
    /\ strays' = strays + 1
    /\ \E w \in StrayWrites :
          IF w.s = "out"
          THEN /\ outPipe' = Append(outPipe, Event(w.d, NoCmd))
               /\ UNCHANGED errPipe
          ELSE /\ errPipe' = Append(errPipe, Event(w.d, NoCmd))
               /\ UNCHANGED outPipe
    /\ UNCHANGED <<fixedVars, poolVars, chanVars, sessVars, transVars, proc, stdin, callVars,
                   panicked, ghostVars>>

\* --------------------------------------------------------------- the callers

\* sendCommand's waitPrompt: false in Close only
WaitsPrompt(c) == c # Closer

\* ctx.Done() of the call's context is closed
CtxDone(c) == callCtx[c] \in {"done", "expired"}

\* Run has returned nil
RunReturned == pc[RunCaller] = "done" /\ ret[RunCaller] # "notAvailable"

\* the calls between <-p.requestLimiter and the deferred send
Holding(c) ==
    pc[c] \in {"drainErr", "drainOut", "enqueue", "sleep", "wait", "errLoop", "release"}

RunSpawnFirst ==
    /\ ~panicked
    /\ pc[RunCaller] = "idle"
    /\ tpc' = "start"
    /\ \E found \in env.lookPath :
          IF found
          THEN /\ pc' = [pc EXCEPT ![RunCaller] = "acquire"]
               /\ \E b \in GetChoices : CheckOut(RunCaller, b)
               /\ UNCHANGED ret
          ELSE /\ ret' = [ret EXCEPT ![RunCaller] = "notAvailable"]
               /\ pc' = [pc EXCEPT ![RunCaller] = "done"]
               /\ UNCHANGED poolVars
    /\ UNCHANGED <<fixedVars, chanVars, sessVars, attempt, tbuf, procVars, callCtx,
                   output, err, panicked, ghostVars>>

\* Run: LookPath, the context, the supervised transport, the version call
Run ==
    /\ ~panicked
    /\ pc[RunCaller] = "idle"
    /\ \E found \in env.lookPath :
          IF found
          THEN /\ tpc' = "start"
               /\ pc' = [pc EXCEPT ![RunCaller] = "acquire"]
               /\ \E b \in GetChoices : CheckOut(RunCaller, b)
               /\ UNCHANGED ret
          ELSE /\ ret' = [ret EXCEPT ![RunCaller] = "notAvailable"]
               /\ pc' = [pc EXCEPT ![RunCaller] = "done"]
               /\ UNCHANGED <<tpc, poolVars>>
    /\ UNCHANGED <<fixedVars, chanVars, sessVars, attempt, tbuf, procVars, callCtx,
                   output, err, panicked, ghostVars>>

\* a user calls RawCommandsContext / Svg2PdfContext with its context
Call(c) ==
    /\ ~panicked
    /\ c \in Users
    /\ c \in env.users
    /\ RunReturned
    /\ pc[c] = "idle"
    /\ \E k \in env.ctxKinds : callCtx' = [callCtx EXCEPT ![c] = k]
    /\ afterCancel' =
          IF \E d \in Callers : pc[d] = "done" /\ ret[d] = "canceled"
          THEN afterCancel \cup {c}
          ELSE afterCancel
    /\ afterClose' = IF pc[Closer] = "done" THEN afterClose \cup {c} ELSE afterClose
    /\ quiet' = FALSE
    /\ \E b \in GetChoices : CheckOut(c, b)
    /\ pc' = [pc EXCEPT ![c] = "acquire"]
    /\ UNCHANGED <<fixedVars, chanVars, sessVars, transVars, procVars, output, err, ret,
                   panicked, mints, src, errSrc, answered, waitLog, callLog, diagnosed>>

\* the call's context is cancelled or its deadline passes
Cancel(c) ==
    /\ ~panicked
    /\ callCtx[c] = "live"
    /\ pc[c] \notin {"idle", "done"}
    /\ callCtx' = [callCtx EXCEPT ![c] = "done"]
    /\ UNCHANGED <<fixedVars, poolVars, chanVars, sessVars, transVars, procVars, pc, output, err,
                   ret, panicked, ghostVars>>

\* Close: its sendCommand of the quit command begins
CloseStart ==
    /\ ~panicked
    /\ env.close
    /\ RunReturned
    /\ pc[Closer] = "idle"
    /\ pc' = [pc EXCEPT ![Closer] = "acquire"]
    /\ quiet' = /\ \A c \in Callers : pc[c] \in {"idle", "done"}
                /\ requestQueue = <<>>
                /\ \A i \in 1..Len(stdin) : stdin[i].cmd = NoCmd
    /\ UNCHANGED <<fixedVars, poolVars, chanVars, sessVars, transVars, procVars, callCtx, output,
                   err, ret, panicked, mints, afterCancel, src, errSrc, answered, waitLog,
                   callLog, diagnosed, afterClose>>

\* <-p.requestLimiter: a token, or the zero value of the closed channel
Acquire(c) ==
    /\ ~panicked
    /\ pc[c] = "acquire"
    /\ requestLimiter > 0 \/ "limiter" \in closed
    /\ requestLimiter' = IF requestLimiter > 0 THEN requestLimiter - 1 ELSE requestLimiter
    /\ pc' = [pc EXCEPT ![c] = "drainErr"]
    /\ UNCHANGED <<fixedVars, poolVars, requestQueue, stdout, stderr, sessVars, transVars, procVars,
                   callCtx, output, err, ret, panicked, ghostVars>>

\* drain(p.stderr): one turn of its loop; on a closed and empty channel the
\* receive is always ready and the loop never ends
DrainStderr(c) ==
    /\ ~panicked
    /\ pc[c] = "drainErr"
    /\ stderr # <<>> \/ "stderr" \notin closed
    /\ IF stderr # <<>>
       THEN /\ stderr' = Tail(stderr)
            /\ UNCHANGED pc
       ELSE /\ pc' = [pc EXCEPT ![c] = "drainOut"]
            /\ UNCHANGED stderr
    /\ UNCHANGED <<fixedVars, poolVars, requestLimiter, requestQueue, stdout, sessVars, transVars,
                   procVars, callCtx, output, err, ret, panicked, ghostVars>>

\* drain(p.stdout)
DrainStdout(c) ==
    /\ ~panicked
    /\ pc[c] = "drainOut"
    /\ stdout # <<>> \/ "stdout" \notin closed
    /\ IF stdout # <<>>
       THEN /\ stdout' = Tail(stdout)
            /\ UNCHANGED pc
       ELSE /\ pc' = [pc EXCEPT ![c] = "enqueue"]
            /\ UNCHANGED stdout
    /\ UNCHANGED <<fixedVars, poolVars, requestLimiter, requestQueue, stderr, sessVars, transVars,
                   procVars, callCtx, output, err, ret, panicked, ghostVars>>

\* the new line is appended and p.requestQueue <- b
Enqueue(c) ==
    /\ ~panicked
    /\ pc[c] = "enqueue"
    /\ LET b == IF HasSuffixNL(SliceOf(c)) THEN SliceOf(c) ELSE SliceOf(c) \o <<NL>>
       IN  /\ mem' = IF bufOf[c] = 0 THEN mem
                      ELSE [mem EXCEPT ![bufOf[c]] = Overlay(@, b)]
           /\ IF "queue" \in closed
              THEN /\ panicked' = TRUE
                   /\ UNCHANGED <<requestQueue, pc>>
              ELSE /\ Len(requestQueue) < ChanCap
                   /\ requestQueue' = Append(requestQueue, Request(b, c, bufOf[c]))
                   /\ pc' = [pc EXCEPT ![c] = IF WaitsPrompt(c) THEN "wait" ELSE "sleep"]
                   /\ UNCHANGED panicked
    /\ UNCHANGED <<fixedVars, free, bufOf, requestLimiter, stdout, stderr, sessVars, transVars, procVars,
                   callCtx, output, err, ret, ghostVars>>

\* if !wait: <-time.After(time.Second); return []byte{}, nil
Sleep(c) ==
    /\ ~panicked
    /\ pc[c] = "sleep"
    /\ ret' = [ret EXCEPT ![c] = "ok"]
    /\ pc' = [pc EXCEPT ![c] = "release"]
    /\ UNCHANGED <<fixedVars, poolVars, chanVars, sessVars, transVars, procVars, callCtx, output, err,
                   panicked, ghostVars>>

\* waitLoop, case <-ctx.Done(): return output, ErrCommandExecCanceled
WaitCanceled(c) ==
    /\ ~panicked
    /\ pc[c] = "wait"
    /\ CtxDone(c)
    /\ ret' = [ret EXCEPT ![c] = "canceled"]
    /\ pc' = [pc EXCEPT ![c] = "release"]
    /\ UNCHANGED <<fixedVars, poolVars, chanVars, sessVars, transVars, procVars, callCtx, output, err,
                   panicked, ghostVars>>

\* waitLoop, case bytesOut := <-p.stdout
WaitStdout(c) ==
    /\ ~panicked
    /\ pc[c] = "wait"
    /\ stdout # <<>>
    /\ LET bytesOut == Head(stdout)
       IN  /\ stdout' = Tail(stdout)
           /\ src' = [src EXCEPT ![c] = @ \cup {bytesOut.cmd}]
           /\ IF HasPromptPart(bytesOut.d)
              THEN /\ pc' = [pc EXCEPT ![c] = "errLoop"]
                   /\ callLog' = [callLog EXCEPT ![c].end = {bytesOut.d}]
                   /\ UNCHANGED output
              ELSE /\ output' = [output EXCEPT ![c] = @ \o bytesOut.d]
                   /\ callLog' = [callLog EXCEPT ![c].skipped = @ \cup {bytesOut.d}]
                   /\ UNCHANGED pc
    /\ UNCHANGED <<fixedVars, poolVars, requestLimiter, requestQueue, stderr, sessVars, transVars,
                   procVars, callCtx, err, ret, panicked, mints, afterCancel, diagnosed,
                   afterClose, quiet, errSrc,
                   answered, waitLog>>

\* errLoop: one turn; return output, err when p.stderr is empty
ErrLoop(c) ==
    /\ ~panicked
    /\ pc[c] = "errLoop"
    /\ stderr # <<>> \/ "stderr" \notin closed
    /\ IF stderr # <<>>
       THEN LET bytesErr == Head(stderr)
            IN  /\ stderr' = Tail(stderr)
                /\ IF Len(bytesErr.d) > 0
                   THEN /\ err' = [err EXCEPT ![c] = bytesErr.d]
                        /\ errSrc' = [errSrc EXCEPT ![c] = {bytesErr.cmd}]
                   ELSE UNCHANGED <<err, errSrc>>
                /\ UNCHANGED <<pc, ret>>
       ELSE /\ ret' = [ret EXCEPT ![c] = IF err[c] = <<>> THEN "ok" ELSE "error"]
            /\ pc' = [pc EXCEPT ![c] = "release"]
            /\ UNCHANGED <<stderr, err, errSrc>>
    /\ UNCHANGED <<fixedVars, poolVars, requestLimiter, requestQueue, stdout, sessVars, transVars,
                   procVars, callCtx, output, panicked, mints, afterCancel, diagnosed,
                   afterClose, quiet, src,
                   answered, waitLog, callLog>>

ReleaseKeepsToken(c) ==
    /\ ~panicked
    /\ pc[c] = "release"
    /\ pc' = [pc EXCEPT ![c] = IF c = Closer THEN "cancel" ELSE "done"]
    /\ output' = [output EXCEPT ![c] = <<>>]
    /\ err' = [err EXCEPT ![c] = <<>>]
    /\ src' = [src EXCEPT ![c] = {}]
    /\ errSrc' = [errSrc EXCEPT ![c] = {}]
    /\ callLog' = [callLog EXCEPT ![c] = NoLog]
    /\ answered' = [answered EXCEPT ![c] = <<>>]
    /\ diagnosed' = [diagnosed EXCEPT ![c] = {}]
    /\ PutBack(c)
    /\ UNCHANGED <<fixedVars, chanVars, sessVars, transVars, procVars, callCtx, ret,
                   panicked, mints, afterCancel, afterClose, quiet, waitLog>>

\* the deferred p.requestLimiter <- struct{}{}, then the call returns, its
\* locals (output, err) are gone and RawCommandsContext puts its buffer back;
\* Close goes on to p.cancel()
Release(c) ==
    /\ ~panicked
    /\ pc[c] = "release"
    /\ IF "limiter" \in closed
       THEN /\ panicked' = TRUE
            /\ UNCHANGED <<requestLimiter, pc, output, err, src, errSrc, callLog, answered,
                           diagnosed, poolVars>>
       ELSE /\ requestLimiter < LimiterCap
            /\ requestLimiter' = requestLimiter + 1
            /\ pc' = [pc EXCEPT ![c] = IF c = Closer THEN "cancel" ELSE "done"]
            /\ output' = [output EXCEPT ![c] = <<>>]
            /\ err' = [err EXCEPT ![c] = <<>>]
            /\ src' = [src EXCEPT ![c] = {}]
            /\ errSrc' = [errSrc EXCEPT ![c] = {}]
            /\ callLog' = [callLog EXCEPT ![c] = NoLog]
            /\ answered' = [answered EXCEPT ![c] = <<>>]
            /\ diagnosed' = [diagnosed EXCEPT ![c] = {}]
            /\ PutBack(c)
            /\ UNCHANGED panicked
    /\ UNCHANGED <<fixedVars, requestQueue, stdout, stderr, sessVars, transVars, procVars,
                   callCtx, ret, mints, afterCancel, afterClose, quiet, waitLog>>

\* Close: p.cancel()
CloseCancel ==
    /\ ~panicked
    /\ pc[Closer] = "cancel"
    /\ ctxDone' = TRUE
    /\ pc' = [pc EXCEPT ![Closer] = "closeLimiter"]
    /\ UNCHANGED <<fixedVars, poolVars, chanVars, closed, transVars, procVars, callCtx, output, err,
                   ret, panicked, ghostVars>>

\* Close: close(p.requestLimiter), close(p.requestQueue), close(p.stderr),
\* close(p.stdout), one at a time, then return err
CloseChannels ==
    /\ ~panicked
    /\ pc[Closer] \in {"closeLimiter", "closeQueue", "closeStderr", "closeStdout"}
    /\ closed' = closed \cup
          { CASE pc[Closer] = "closeLimiter" -> "limiter"
              [] pc[Closer] = "closeQueue" -> "queue"
              [] pc[Closer] = "closeStderr" -> "stderr"
              [] pc[Closer] = "closeStdout" -> "stdout" }
    /\ pc' = [pc EXCEPT ![Closer] =
                 CASE pc[Closer] = "closeLimiter" -> "closeQueue"
                   [] pc[Closer] = "closeQueue" -> "closeStderr"
                   [] pc[Closer] = "closeStderr" -> "closeStdout"
                   [] pc[Closer] = "closeStdout" -> "done"]
    /\ UNCHANGED <<fixedVars, poolVars, chanVars, ctxDone, transVars, procVars, callCtx, output, err,
                   ret, panicked, ghostVars>>

\* ------------------------------------------------------------ specifications

Next ==
    \/ Run
    \/ \E c \in Callers : Call(c)
    \/ \E c \in Callers : Cancel(c)
    \/ CloseStart
    \/ \E c \in Callers : Acquire(c)
    \/ \E c \in Callers : DrainStderr(c)
    \/ \E c \in Callers : DrainStdout(c)
    \/ \E c \in Callers : Enqueue(c)
    \/ \E c \in Callers : Sleep(c)
    \/ \E c \in Callers : WaitCanceled(c)
    \/ \E c \in Callers : WaitStdout(c)
    \/ \E c \in Callers : ErrLoop(c)
    \/ \E c \in Callers : Release(c)
    \/ CloseCancel
    \/ CloseChannels
    \/ Start
    \/ Retry
    \/ WaitPrompt
    \/ Mint
    \/ ServeDone
    \/ CmdWait
    \/ Dequeue
    \/ ServeStderr
    \/ ServeStdout
    \/ Unblock
    \/ Emit
    \/ Quit
    \/ Kill
    \/ Crash
    \/ Stray

\* one user, and everything the surroundings can do
EnvOne ==
    [ lookPath  |-> BOOLEAN,
      startFail |-> TRUE,
      startups  |-> {"noisy"},
      responses |-> {"gt"},
      stray     |-> TRUE,
      users     |-> {CHOOSE u \in Users : \A v \in Users : u <= v},
      ctxKinds  |-> {"bg", "live"},
      close     |-> TRUE,
      crash     |-> TRUE,
      suppress  |-> {TRUE} ]

\* the users' calls with their contexts on a running Session
EnvRun ==
    [ lookPath  |-> {TRUE},
      startFail |-> TRUE,
      startups  |-> {"apart", "joined"},
      responses |-> {"apart", "joined", "diag"},
      stray     |-> FALSE,
      users     |-> Users,
      ctxKinds  |-> {"bg", "live", "expired"},
      close     |-> FALSE,
      crash     |-> FALSE,
      suppress  |-> {TRUE} ]

\* Close while the users' calls are in progress
EnvClose ==
    [ lookPath  |-> {TRUE},
      startFail |-> FALSE,
      startups  |-> {"joined"},
      responses |-> {"prompt", "diag"},
      stray     |-> FALSE,
      users     |-> Users,
      ctxKinds  |-> {"bg", "live"},
      close     |-> TRUE,
      crash     |-> FALSE,
      suppress  |-> {TRUE} ]

\* what is to be filtered: diagnostics, with warning suppression on and off,
\* and the banner
EnvWarn ==
    [ lookPath  |-> {TRUE},
      startFail |-> FALSE,
      startups  |-> {"joined"},
      responses |-> {"prompt", "diag", "warn", "mixed", "banner"},
      stray     |-> FALSE,
      users     |-> {CHOOSE u \in Users : \A v \in Users : u <= v},
      ctxKinds  |-> {"bg"},
      close     |-> FALSE,
      crash     |-> FALSE,
      suppress  |-> BOOLEAN ]

\* concurrent calls that never expire on a subordinate that answers every
\* command with its result and a prompt
EnvCalm ==
    [ lookPath  |-> {TRUE},
      startFail |-> FALSE,
      startups  |-> {"apart", "joined", "noisy"},
      responses |-> {"prompt", "apart", "joined", "gt"},
      stray     |-> FALSE,
      users     |-> Users,
      ctxKinds  |-> {"bg"},
      close     |-> FALSE,
      crash     |-> FALSE,
      suppress  |-> {TRUE} ]

DefaultOptions == [suppressWarning |-> TRUE, maxRetry |-> MaxRetry]

\* the options of a run: the defaults with the option SuppressWarning(b)
OptionsOf(e) == {[DefaultOptions EXCEPT !.suppressWarning = b] : b \in e.suppress}

Init ==
    /\ InitProxy
    /\ env \in {EnvOne, EnvRun, EnvClose, EnvWarn}
    /\ options \in OptionsOf(env)

Spec == Init /\ [][Next]_vars

InitOne ==
    /\ InitProxy
    /\ env = EnvOne
    /\ options = DefaultOptions

\* one user on a Session that is run, used and closed
SpecOne == InitOne /\ [][Next]_vars

\* any step of the call c of sendCommand
CallerStep(c) ==
    \/ Acquire(c)
    \/ DrainStderr(c)
    \/ DrainStdout(c)
    \/ Enqueue(c)
    \/ Sleep(c)
    \/ WaitCanceled(c)
    \/ WaitStdout(c)
    \/ ErrLoop(c)
    \/ Release(c)

\* any step of the goroutine Run starts: the supervisor and runBackground
TransportStep ==
    \/ Start
    \/ Retry
    \/ WaitPrompt
    \/ Mint
    \/ ServeDone
    \/ CmdWait
    \/ Dequeue
    \/ ServeStderr
    \/ ServeStdout
    \/ Unblock

\* the subordinate answers the command it has read, obeys quit, and is
\* killed when the context is done
SubordinateStep == Emit \/ Quit \/ Kill

\* what Close does after its sendCommand
CloserStep == CloseCancel \/ CloseChannels

\* every goroutine that can take a step gets its turn, and so does the
\* subordinate; nobody is bound to make a call, cancel a context or call Close
Fairness ==
    /\ \A c \in Callers : WF_vars(CallerStep(c))
    /\ WF_vars(CloserStep)
    /\ WF_vars(TransportStep)
    /\ WF_vars(SubordinateStep)

InitFair ==
    /\ InitProxy
    /\ env \in {EnvOne, EnvCalm}
    /\ options \in OptionsOf(env)

\* the goroutines under a fair scheduler
SpecFair == InitFair /\ [][Next]_vars /\ Fairness

\* ------------------------------------------------------------------ claims

\* the calls that hold the limiter token
Holders == {c \in Callers : Holding(c)}

\* the commands written to the subordinate's stdin whose prompt it has not
\* written yet
InFlight == Len(SelectSeq(stdin, LAMBDA e : e.cmd # NoCmd))

\* the call c has executed its return statement (the deferred release is
\* what is left of it)
Returned(c) == pc[c] = "release"

\* C1: at most one call is between its receive from requestLimiter and its
\* deferred send, in every reachable state.
OneHolder == Cardinality(Holders) <= 1

\* C2: at most one command is written to stdin and still without its prompt,
\* in every reachable state.
OneInFlight == InFlight <= 1

\* C3: the token is minted once, and once it is minted the calls holding it
\* and the tokens in the limiter add up to one.
TokenConserved ==
    /\ mints <= 1
    /\ mints = 1 => Cardinality(Holders) + requestLimiter = 1

\* C4: a call made with a context that is already done returns
\* ErrCommandExecCanceled.
ExpiredIsCanceled ==
    \A c \in Users :
        Returned(c) /\ callCtx[c] = "expired" => ret[c] = "canceled"

\* C5: a call with a context that never expires, made after another call
\* returned ErrCommandExecCanceled, returns successfully (or with the
\* diagnostic of its own command).
UsableAfterCancel ==
    \A c \in Users :
        Returned(c) /\ c \in afterCancel /\ callCtx[c] = "bg"
            => ret[c] = "ok" \/ (ret[c] = "error" /\ errSrc[c] = {c})

\* C6: a call that waits for the token with its context done is not blocked:
\* it has a step to take, whether or not a token is there.
AcquireCancellable ==
    \A c \in Users :
        ~panicked /\ pc[c] = "acquire" /\ CtxDone(c) => ENABLED CallerStep(c)

\* C7: no stdout chunk of another call's command is accumulated into, or
\* ends the wait of, a call.
OwnOutputOnly ==
    \A c \in Callers :
        Returned(c) => src[c] \cap (Callers \ {c}) = {}

\* C8: no chunk that the subordinate wrote while no command was in flight is
\* in the result or the error of a call.
StrayDiscarded ==
    \A c \in Callers :
        Returned(c) => NoCmd \notin (src[c] \cup errSrc[c])

\* C9: a call that ended on the prompt returns all the result content that
\* the subordinate wrote for its command, in order (white space apart).
ResultComplete ==
    \A c \in Callers :
        Returned(c) /\ WaitsPrompt(c) /\ ret[c] \in {"ok", "error"}
            => StripSpace(output[c]) = answered[c]

\* the chunk has a line that is the one character '>': a '>' with a line end
\* or nothing but white space of the chunk's edge on either side
PromptLine(s) ==
    \E i \in 1..Len(s) :
        /\ s[i] = GT
        /\ \/ \A j \in 1..(i - 1) : IsSpace(s[j])
           \/ s[i - 1] = NL
        /\ \/ \A j \in (i + 1)..Len(s) : IsSpace(s[j])
           \/ s[i + 1] = NL

\* C10: the startup wait and the command wait end on a chunk with a line
\* that is exactly '>' and on no other chunk: every chunk they passed over
\* has no such line, whatever '>' it holds inside other text.
PromptOnly ==
    /\ \A d \in waitLog.skipped : ~PromptLine(d)
    /\ \A d \in waitLog.end : PromptLine(d)
    /\ tpc \in {"mint", "serve"} => waitLog.end # {}
    /\ \A c \in Callers :
          /\ \A d \in callLog[c].skipped : ~PromptLine(d)
          /\ \A d \in callLog[c].end : PromptLine(d)
          /\ pc[c] = "errLoop" => callLog[c].end # {}
          /\ Returned(c) /\ WaitsPrompt(c) /\ ret[c] # "canceled" => callLog[c].end # {}

\* C10's case: both waits have passed over a chunk with '>' inside other
\* text and have ended on a prompt
PromptOnlyWitness ==
    /\ \E d \in waitLog.skipped : Contains(d, <<GT>>)
    /\ waitLog.end # {}
    /\ \E c \in Users :
          /\ Returned(c)
          /\ ret[c] = "ok"
          /\ \E d \in callLog[c].skipped : Contains(d, <<GT>>)
          /\ Contains(output[c], <<GT>>)

\* the lines of a chunk of the diagnostic stream
Lines(d) == Split(TrimSpace(d))

HasWarningLine(d) ==
    \E k \in 1..Len(Lines(d)) : Contains(Lines(d)[k], WARNING)

\* a line of the chunk that is not a warning
HasOtherLine(d) ==
    \E k \in 1..Len(Lines(d)) :
        Lines(d)[k] # <<>> /\ ~Contains(Lines(d)[k], WARNING)

\* the call c ended on the prompt of its own command
OwnPrompt(c) ==
    Returned(c) /\ WaitsPrompt(c) /\ ret[c] \in {"ok", "error"} /\ src[c] = {c}

\* C11: a call whose command the subordinate answered with a diagnostic that
\* is not a warning, and then the prompt, returns that diagnostic as its
\* error, however the two streams were forwarded; the subordinate and the
\* transport stay up.
DiagnosticReported ==
    \A c \in Callers :
        OwnPrompt(c) =>
            \A d \in diagnosed[c] :
                ~Contains(d, WARNING) =>
                    /\ ret[c] = "error"
                    /\ err[c] = TrimSpace(d)
                    /\ pc[Closer] = "idle" /\ ~env.crash =>
                          proc = "up" /\ tpc \in {"serve", "sendErr", "sendOut"}

\* the transport has handled every diagnostic chunk of c's command, and none
\* is left in p.stderr
Settled(c) ==
    /\ \A i \in 1..Len(errPipe) : errPipe[i].cmd # c
    /\ \A i \in 1..Len(tbuf) : tbuf[i].cmd # c
    /\ \A i \in 1..Len(stderr) : stderr[i].cmd # c

\* C12: with suppression on, no error that a call returns holds a warning
\* line; with suppression off a warning line makes the call return an error;
\* and a line that is not a warning makes it return an error with either
\* setting, also in one chunk with a warning line.  Stated of the calls whose
\* diagnostics the transport handled before they looked at p.stderr.
WarningPolicy ==
    \A c \in Callers :
        OwnPrompt(c) /\ Settled(c) =>
            /\ options.suppressWarning /\ ret[c] = "error" => ~Contains(err[c], WARNING)
            /\ ~options.suppressWarning /\ (\E d \in diagnosed[c] : HasWarningLine(d))
                  => ret[c] = "error"
            /\ (\E d \in diagnosed[c] : HasOtherLine(d)) => ret[c] = "error"

\* C13: Run returns once it has started the transport, whether or not the
\* subordinate ever gets as far as its first prompt.
RunReturns == (pc[RunCaller] = "acquire") ~> (pc[RunCaller] = "done")

\* C14: when the executable is not found Run returns ErrCommandNotAvailable
\* and the Session is as NewProxy made it: no transport goroutine, no
\* process, no attempt, no token, nothing queued, nothing cancelled or closed.
NotAvailableNoEffect ==
    ret[RunCaller] = "notAvailable" =>
        /\ pc[RunCaller] = "done"
        /\ tpc = "off" /\ attempt = 0 /\ proc = "none"
        /\ mints = 0 /\ requestLimiter = 0
        /\ requestQueue = <<>> /\ stdout = <<>> /\ stderr = <<>>
        /\ ~ctxDone /\ closed = {}

\* C14's case: Run has returned ErrCommandNotAvailable
NotAvailableWitness ==
    pc[RunCaller] = "done" /\ ret[RunCaller] = "notAvailable"

\* C15: a call made after Close has returned is never stuck (blocked, or
\* turning in a loop that cannot end) while the program runs, and when it
\* returns it returns an error.
FailsAfterClose ==
    \A c \in afterClose :
        /\ ~panicked /\ pc[c] # "done" => ENABLED CallerStep(c)
        /\ Returned(c) => ret[c] = "error"

\* C16: Close on a Session whose commands have all completed, with no call
\* made since, does not panic any goroutine, and no chunk is delivered to a
\* call made after Close.
QuietCloseNoPanic ==
    /\ quiet => ~panicked
    /\ \A c \in afterClose : src[c] = {} /\ errSrc[c] = {}

\* C17: once the supervisor has given up (the transport has stopped and the
\* governing context is not cancelled), every call in progress comes to return
\* an error.
StoppedCallsFail ==
    \A c \in Callers :
        (tpc = "stopped" /\ ~ctxDone /\ pc[c] \notin {"idle", "done"})
            ~> (pc[c] = "done" /\ ret[c] \notin {"none", "ok"})

\* nothing but calls that never expire on a subordinate that answers every
\* command with its result and a prompt: no diagnostics, no stray output, no
\* exit, no Close
Calm ==
    /\ ~env.close /\ ~env.crash /\ ~env.stray /\ ~env.startFail
    /\ env.ctxKinds = {"bg"}
    /\ env.responses \subseteq {"prompt", "apart", "joined", "gt"}

\* C18: on such a Session each of the concurrent calls comes to return, and
\* returns a nil error.
CalmCallsReturn ==
    \A c \in Users :
        (Calm /\ pc[c] = "acquire") ~> (pc[c] = "done" /\ ret[c] = "ok")

\* C18's case: one call has returned nil while another one, made meanwhile,
\* waits for the token
CalmCallsWitness ==
    /\ Calm
    /\ \E c, d \in Users :
          /\ c # d
          /\ pc[c] = "acquire"
          /\ Returned(d) /\ ret[d] = "ok"

\* runBackground is past cmd.Start() and has not returned
Running == tpc \in {"wait", "mint", "serve", "sendErr", "sendOut", "cmdWait"}

\* C19: when the subordinate has exited and the governing context is not
\* cancelled, runBackground comes to return to the supervisor (which backs
\* off, or stops), in the startup wait and in the serve loop alike.
ExitReturned ==
    (proc = "dead" /\ ~ctxDone /\ Running) ~> (tpc \in {"backoff", "stopped"} \/ ctxDone)

\* C20: once the governing context is cancelled the transport goroutine
\* comes to return, whatever it was doing (unless the program has panicked
\* before it could).
CancelStops == ctxDone ~> (tpc = "stopped" \/ panicked)

\* the transport has read the first prompt of the process it started last
SawFirstPrompt == \E d \in waitLog.end : PromptLine(d)

\* C21: a step that writes a command to the subordinate's stdin, or that puts
\* the token into the limiter, is taken only after the transport has read the
\* first prompt of the process started last, respawned or not.
FirstPromptFirst ==
    [][ /\ InFlight' > InFlight \/ mints' > mints => SawFirstPrompt
        /\ tpc' \in {"mint", "serve"} => SawFirstPrompt' ]_vars

\* C21's case: the supervisor has started the subordinate again, the second
\* process has written its prompt after other output, the token is minted
\* and a command is written
FirstPromptWitness ==
    /\ attempt >= 2
    /\ waitLog.skipped # {}
    /\ mints = 1
    /\ InFlight >= 1

\* C22: the error a call returns comes from its own command: never from a
\* diagnostic the subordinate wrote for another call's command, nor from the
\* failed write of another call's command.
OwnErrorOnly ==
    \A c \in Callers :
        Returned(c) /\ ret[c] = "error" => errSrc[c] \cap (Callers \ {c}) = {}

\* C23: no result that a call returns holds the banner: a stdout line with
\* the banner is dropped before the first prompt and while a command is in
\* flight alike.
BannerDiscarded ==
    \A c \in Callers : Returned(c) => ~Contains(output[c], shellModeBanner)

\* the write of c's command to stdin has failed and the transport has put
\* the error on p.stderr
WriteFailed(c) ==
    \E i \in 1..Len(stderr) : stderr[i] = Event(writeError, c)

\* C25: a call whose command could not be written to stdin, and whose context
\* never expires, comes to return the write error, prompt or no prompt.
WriteErrorReturned ==
    \A c \in Callers :
        (pc[c] = "wait" /\ callCtx[c] = "bg" /\ WriteFailed(c))
            ~> (Returned(c) /\ ret[c] = "error" /\ err[c] = writeError)

\* C26: when Close runs with other calls in progress or waiting for the token
\* (Close did not begin on a quiet Session, and the calls were made before
\* Close returned), no goroutine sends on a closed channel, and the closed
\* limiter does not let two calls hold at once.
CloseAmongCalls ==
    quiet \/ afterClose # {} \/
        /\ ~panicked
        /\ "limiter" \in closed => Cardinality(Holders) <= 1

\* what the call c serialized: its command and the new line
Serialized(c) == Command(c) \o <<NL>>

\* C24: every command on the subordinate's stdin is, byte for byte, what the
\* call that enqueued it had serialized, whatever became of that call's
\* buffer before the transport wrote the command.
WrittenAsSerialized ==
    \A i \in 1..Len(stdin) :
        stdin[i].cmd # NoCmd => stdin[i].d = Serialized(stdin[i].cmd)

====
